---- MODULE Spec2Model ----
(***************************************************************************)
(* State machine of BranchListComponent (src/components/branchlist.rs):    *)
(* the branch list fetched from the repository, the fuzzy-filtered view    *)
(* over it, the selection cursor, the scroll offset and the handlers that  *)
(* change them (open, hide, update_branches, update_git, draw, event).     *)
(*                                                                         *)
(* Indices are 0-based as in the Rust code; a TLA+ sequence s is read at   *)
(* s[i + 1] for the Rust index i.                                          *)
(***************************************************************************)
EXTENDS Integers, Sequences, FiniteSets, TLC

\* ------------------------------------------------------------------------
\* Bounds of the model
\* ------------------------------------------------------------------------
MaxBranches == 2        \* longest branch list the repository returns
MaxQuery == 2           \* longest text typed into the fuzzy-find input
MaxHeight == 2          \* tallest list area handed to draw_list

\* u16::MAX, the width of `selection` and `current_height`
U16Max == 65535

\* ------------------------------------------------------------------------
\* Branch names, branch lists, backend outcomes
\* ------------------------------------------------------------------------
\* characters the user types into the query
QueryChars == {"a", "b"}

LocalNames == { <<"a", "b">>, <<"b", "a">>, <<"a", "a">> }

RemoteNames == { <<"o", "/", "H", "E", "A", "D">>,
                 <<"u", "/", "H", "E", "A", "D">>,
                 <<"o", "/", "a">> }

HeadSuffix == <<"/", "H", "E", "A", "D">>

Distinct(f) == \A i, j \in DOMAIN f : i # j => f[i] # f[j]

NameLists(names) ==
    { ns \in UNION { [1..k -> names] : k \in 0..MaxBranches } : Distinct(ns) }

\* BranchInfo: name (the reference and the top commit are identified with
\* it), details = Local/Remote, is_head of LocalBranch
BranchInfo(n, d, h) == [name |-> n, details |-> d, is_head |-> h]

\* the branch the repository has checked out, when HEAD is not detached
HeadName == <<"b", "a">>

\* what get_branches_info(repo, true) can return: any list of distinct
\* local branches, HeadName marked as HEAD or HEAD detached
LocalLists ==
    { [i \in 1..Len(ns) |->
          BranchInfo(ns[i], "Local", attached /\ ns[i] = HeadName)] :
        ns \in NameLists(LocalNames), attached \in BOOLEAN }

\* what get_branches_info(repo, false) can return
RemoteLists ==
    { [i \in 1..Len(ns) |-> BranchInfo(ns[i], "Remote", FALSE)] :
        ns \in NameLists(RemoteNames) }

\* Result<Vec<BranchInfo>>
FetchErr == [ok |-> FALSE, val |-> <<>>]
FetchOutcomes(local_) ==
    {FetchErr} \cup
    { [ok |-> TRUE, val |-> L] :
        L \in (IF local_ THEN LocalLists ELSE RemoteLists) }

\* AsyncGitNotification
Notifications == {"Push", "Fetch", "Status"}

\* ------------------------------------------------------------------------
\* Small helpers
\* ------------------------------------------------------------------------
Min(a, b) == IF a < b THEN a ELSE b
Max(a, b) == IF a > b THEN a ELSE b

\* u16::saturating_add / saturating_sub
saturating_add(a, b) == Min(a + b, U16Max)
saturating_sub(a, b) == Max(a - b, 0)

\* str::ends_with
ends_with(s, suf) ==
    /\ Len(s) >= Len(suf)
    /\ SubSeq(s, Len(s) - Len(suf) + 1, Len(s)) = suf

\* ------------------------------------------------------------------------
\* The matcher: SkimMatcherV2::default().fuzzy_indices(choice, pattern)
\* ------------------------------------------------------------------------
UpperChars == {"A", "D", "E", "H"}

to_lowercase(c) ==
    CASE c = "A" -> "a"
      [] c = "D" -> "d"
      [] c = "E" -> "e"
      [] c = "H" -> "h"
      [] OTHER -> c

\* smart case: the match is case sensitive only when the pattern holds an
\* upper-case character
case_sensitive(pattern) == \E i \in DOMAIN pattern : pattern[i] \in UpperChars

char_equal(c, p, cs) ==
    IF cs THEN c = p ELSE to_lowercase(c) = to_lowercase(p)

\* leftmost occurrence of pattern[p..] as a subsequence of choice[c..]
\* (arguments are 1-based positions, the result holds 0-based offsets)
RECURSIVE match_from(_, _, _, _)
match_from(choice, pattern, c, p) ==
    IF p > Len(pattern) THEN [ok |-> TRUE, indices |-> <<>>]
    ELSE IF c > Len(choice) THEN [ok |-> FALSE, indices |-> <<>>]
    ELSE IF char_equal(choice[c], pattern[p], case_sensitive(pattern))
    THEN LET r == match_from(choice, pattern, c + 1, p + 1)
         IN  [ok |-> r.ok, indices |-> <<c - 1>> \o r.indices]
    ELSE match_from(choice, pattern, c + 1, p)

ScoreMatch == 16            \* per matched character
BonusBoundary == 8          \* match at the start of the name or after '/'
BonusConsecutive == 4       \* match right after the previous match

\* score of the matched offsets: every match counts, matches at a word
\* boundary and matches adjacent to the previous one count more, leading
\* unmatched characters count against
score_of(choice, indices) ==
    LET at_boundary(k) ==
            \/ indices[k] = 0
            \/ choice[indices[k]] = "/"
        consecutive(k) == k > 1 /\ indices[k] = indices[k - 1] + 1
        bonus(k) == ScoreMatch
                    + (IF at_boundary(k) THEN BonusBoundary ELSE 0)
                    + (IF consecutive(k) THEN BonusConsecutive ELSE 0)
        Sum[k \in 0..Len(indices)] ==
            IF k = 0 THEN 0 ELSE Sum[k - 1] + bonus(k)
    IN  Sum[Len(indices)] - (IF indices = <<>> THEN 0 ELSE indices[1])

\* Option<(score, indices)>
fuzzy_indices(choice, pattern) ==
    LET m == match_from(choice, pattern, 1, 1)
    IN  IF m.ok
        THEN [some |-> TRUE, score |-> score_of(choice, m.indices),
              indices |-> m.indices]
        ELSE [some |-> FALSE, score |-> 0, indices |-> <<>>]

\* ------------------------------------------------------------------------
\* State of the component
\* ------------------------------------------------------------------------
VARIABLES
    branches,           \* Vec<BranchInfo>
    branches_filtered,  \* Vec<(usize, Vec<usize>)>: <<source index, offsets>>
    local,              \* partition shown: local or remote branches
    has_remotes,
    visible,
    fuzzy_find,         \* TRUE = Filtering mode, FALSE = Browsing mode
    text,               \* fuzzy_find_input's text, the query
    selection,          \* u16 cursor
    scroll_top,         \* scroll.get_top()
    current_height,     \* Cell<u16>, set by draw_list
    panicked            \* "none", or the place where the process panicked

vars == << branches, branches_filtered, local, has_remotes, visible,
           fuzzy_find, text, selection, scroll_top, current_height,
           panicked >>

\* the fields of the component the handlers below read and write, with what
\* the running handler hands to its surroundings: ret = the value it returns
\* when it returns Ok, err = it returns Err, panic = where it panicked,
\* calls = the backend calls it made, pushed = the events it pushed onto the
\* queue of the host (drained by the host, not a field of the component)
Self ==
    [ branches |-> branches, branches_filtered |-> branches_filtered,
      local |-> local, has_remotes |-> has_remotes, visible |-> visible,
      fuzzy_find |-> fuzzy_find, text |-> text, selection |-> selection,
      scroll_top |-> scroll_top, current_height |-> current_height,
      ret |-> "Ok", err |-> FALSE, panic |-> "none", calls |-> <<>>,
      pushed |-> <<>> ]

Ok(s) == s.panic = "none" /\ ~s.err

call(s, c) == [s EXCEPT !.calls = Append(@, c)]
push(s, e) == [s EXCEPT !.pushed = Append(@, e)]
panic(s, where) == [s EXCEPT !.panic = where]
returns(s, r) == [s EXCEPT !.ret = r]

\* ------------------------------------------------------------------------
\* Methods of BranchListComponent, as functions from state to state
\* ------------------------------------------------------------------------
hide(s) == [s EXCEPT !.visible = FALSE]

\* show as it would be without the reset of the input's text
show_keeps_text(s) == [s EXCEPT !.visible = TRUE]

show(s) == [s EXCEPT !.text = <<>>, !.visible = TRUE]

\* valid_selection as it would be without the check of the filtered view
valid_selection_branches_only(s) == s.branches # <<>>

valid_selection(s) == s.branches # <<>> /\ s.branches_filtered # <<>>

\* the closure of selection_is_cur_branch reads
\* branches_filtered[selection] for every branch that is the local HEAD
selection_is_cur_branch_panics(s) ==
    /\ s.branches_filtered # <<>>
    /\ \E i \in DOMAIN s.branches :
          s.branches[i].details = "Local" /\ s.branches[i].is_head
    /\ s.selection >= Len(s.branches_filtered)

selection_is_cur_branch(s) ==
    IF s.branches_filtered = <<>> THEN FALSE
    ELSE \E i \in DOMAIN s.branches :
            /\ s.branches[i].details = "Local"
            /\ s.branches[i].is_head
            /\ i - 1 = s.branches_filtered[s.selection + 1][1]

\* set_selection as it would be without the clamp to the last row
set_selection_unclamped(s, sel) ==
    [s EXCEPT !.selection = sel, !.err = FALSE]

\* num_branches = len(branches_filtered) as u16 (the conversion cannot fail
\* for lists this short), selection clamped to num_branches - 1
set_selection(s, sel) ==
    LET num_branches == saturating_sub(Len(s.branches_filtered), 1)
    IN  [s EXCEPT !.selection = IF sel > num_branches THEN num_branches
                                ELSE sel,
                  !.err = FALSE]

move_selection(s, scroll) ==
    LET new_selection ==
            CASE scroll = "Up" -> saturating_add(s.selection, 1)
              [] scroll = "Down" -> saturating_sub(s.selection, 1)
              [] scroll = "PageDown" ->
                    saturating_add(s.selection, s.current_height)
              [] scroll = "PageUp" ->
                    saturating_sub(s.selection, s.current_height)
              [] scroll = "Home" -> 0
              [] scroll = "End" ->
                    saturating_sub(Len(s.branches_filtered), 1)
    IN  set_selection(s, new_selection)

refresh_selection(s) ==
    LET n == Len(s.branches_filtered)
        s1 == IF s.selection >= n
              THEN [s EXCEPT !.selection = saturating_sub(n, 1)]
              ELSE s
    IN  IF n = 0 THEN [s1 EXCEPT !.selection = 0] ELSE s1

\* slice::sort_by(|a, b| b.score.cmp(a.score)): a stable sort, highest
\* score first; insert puts e behind every element that does not score less
RECURSIVE insert_sorted(_, _)
insert_sorted(sorted, e) ==
    IF sorted = <<>> THEN <<e>>
    ELSE IF Head(sorted).score >= e.score
         THEN <<Head(sorted)>> \o insert_sorted(Tail(sorted), e)
         ELSE <<e>> \o sorted

\* sort_by as an unstable sort would leave it: an element goes in front of
\* the elements of equal score
RECURSIVE insert_before_equal(_, _)
insert_before_equal(sorted, e) ==
    IF sorted = <<>> THEN <<e>>
    ELSE IF Head(sorted).score > e.score
         THEN <<Head(sorted)>> \o insert_before_equal(Tail(sorted), e)
         ELSE <<e>> \o sorted

sort_by_unstable(seq) ==
    LET Acc[k \in 0..Len(seq)] ==
            IF k = 0 THEN <<>> ELSE insert_before_equal(Acc[k - 1], seq[k])
    IN  Acc[Len(seq)]

sort_by(seq) ==
    LET Acc[k \in 0..Len(seq)] ==
            IF k = 0 THEN <<>> ELSE insert_sorted(Acc[k - 1], seq[k])
    IN  Acc[Len(seq)]

\* filter_map as it would be if the branches the matcher rejects were kept
filter_map_keeps_all(bs, q) ==
    [i \in 1..Len(bs) |->
        LET m == fuzzy_indices(bs[i].name, q)
        IN  [some |-> m.some, score |-> m.score,
             index |-> i - 1, indices |-> m.indices]]

\* the (score, index, indices) triples of the branches the matcher accepts,
\* in the order of `branches`
filter_map(bs, q) ==
    LET all == [i \in 1..Len(bs) |->
                   LET m == fuzzy_indices(bs[i].name, q)
                   IN  [some |-> m.some, score |-> m.score,
                        index |-> i - 1, indices |-> m.indices]]
        keep(e) == e.some
    IN  SelectSeq(all, keep)

\* update_filter as it would be if the empty query cleared the view and
\* returned without filling it
update_filter_clears_on_empty(s) ==
    LET q == s.text
    IN  IF q = <<>>
        THEN [s EXCEPT !.branches_filtered = <<>>]
        ELSE LET sorted == sort_by(filter_map(s.branches, q))
             IN  refresh_selection(
                   [s EXCEPT !.branches_filtered =
                       [i \in 1..Len(sorted) |->
                           <<sorted[i].index, sorted[i].indices>>]])

update_filter(s) ==
    LET q == s.text
    IN  IF q = <<>>
        THEN [s EXCEPT !.branches_filtered =
                          [i \in 1..Len(s.branches) |-> <<i - 1, <<>> >>]]
        ELSE LET sorted == sort_by(filter_map(s.branches, q))
             IN  refresh_selection(
                   [s EXCEPT !.branches_filtered =
                       [i \in 1..Len(sorted) |->
                           <<sorted[i].index, sorted[i].indices>>]])

\* check_remotes: rem is what get_branches_info(repo, false) returns
check_remotes(s, rem) ==
    IF ~s.local /\ s.visible
    THEN call([s EXCEPT !.has_remotes = rem.ok /\ rem.val # <<>>],
              [fn |-> "get_branches_info", arg |-> <<"remote">>])
    ELSE s

\* branches.iter().position(|b| b.name.ends_with("/HEAD"))
\*         .map(|idx| branches.remove(idx)): the first such entry goes
remove_head(bs) ==
    LET heads == { i \in DOMAIN bs : ends_with(bs[i].name, HeadSuffix) }
    IN  IF heads = {} THEN bs
        ELSE LET idx == CHOOSE i \in heads : \A j \in heads : i <= j
             IN  SubSeq(bs, 1, idx - 1) \o SubSeq(bs, idx + 1, Len(bs))

\* update_branches as it would be if it rebuilt the view after the fetch by
\* extending it with a row per branch, without clearing it first
update_branches_extends_view(s, rem, got) ==
    IF ~s.visible THEN [s EXCEPT !.err = FALSE]
    ELSE LET s1 == call(check_remotes(s, rem),
                        [fn |-> "get_branches_info",
                         arg |-> IF s.local THEN <<"local">>
                                 ELSE <<"remote">>])
         IN  IF ~got.ok THEN [s1 EXCEPT !.err = TRUE]
             ELSE LET bs == IF ~s1.local THEN remove_head(got.val)
                            ELSE got.val
                  IN  set_selection(
                          [s1 EXCEPT !.branches = bs,
                                     !.branches_filtered =
                                         @ \o [i \in 1..Len(bs) |->
                                                  <<i - 1, <<>> >>]],
                          s1.selection)

\* update_branches as it would be without the check of is_visible()
update_branches_when_hidden(s, rem, got) ==
    LET s1 == call(check_remotes(s, rem),
                   [fn |-> "get_branches_info",
                    arg |-> IF s.local THEN <<"local">> ELSE <<"remote">>])
    IN  IF ~got.ok THEN [s1 EXCEPT !.err = TRUE]
        ELSE LET bs == IF ~s1.local THEN remove_head(got.val) ELSE got.val
             IN  set_selection([s1 EXCEPT !.branches = bs], s1.selection)

\* update_branches: rem and got are what the two get_branches_info calls
\* return (check_remotes, then the fetch of the shown partition)
update_branches(s, rem, got) ==
    IF ~s.visible THEN [s EXCEPT !.err = FALSE]
    ELSE LET s1 == call(check_remotes(s, rem),
                        [fn |-> "get_branches_info",
                         arg |-> IF s.local THEN <<"local">>
                                 ELSE <<"remote">>])
         IN  IF ~got.ok THEN [s1 EXCEPT !.err = TRUE]
             ELSE LET bs == IF ~s1.local THEN remove_head(got.val)
                            ELSE got.val
                  IN  set_selection([s1 EXCEPT !.branches = bs],
                                    s1.selection)

open(s, rem, got) ==
    LET s1 == update_branches(show(s), rem, got)
    IN  IF s1.err THEN s1
        ELSE update_filter([s1 EXCEPT !.fuzzy_find = FALSE])

\* try_or_popup!(self, msg, e): an Err becomes an error message on the queue
try_or_popup(s, msg) ==
    IF s.panic = "none" /\ s.err
    THEN push([s EXCEPT !.err = FALSE],
              [kind |-> "ShowErrorMsg", target |-> <<msg>>])
    ELSE s

\* repo_state is what sync::repo_state returns: "Clean", "Merge", "Err"
RepoStates == {"Clean", "Merge", "Err"}

hide_and_switch_tab(s, repo_state) ==
    LET s1 == call(push(hide(s), [kind |-> "Update", target |-> <<>>]),
                   [fn |-> "repo_state", arg |-> <<>>])
    IN  IF repo_state = "Err" THEN [s1 EXCEPT !.err = TRUE]
        ELSE IF repo_state # "Clean"
             THEN push(s1, [kind |-> "TabSwitchStatus", target |-> <<>>])
             ELSE s1

\* merge_branch and rebase_branch differ in the backend function only
merge_or_rebase(s, fn, done, repo_state) ==
    IF s.selection < Len(s.branches)
    THEN LET branch == s.branches[s.selection + 1]
             s1 == call(s, [fn |-> fn, arg |-> branch.name])
         IN  IF ~done THEN [s1 EXCEPT !.err = TRUE]
             ELSE hide_and_switch_tab(s1, repo_state)
    ELSE [s EXCEPT !.err = FALSE]

merge_branch(s, done, repo_state) ==
    merge_or_rebase(s, "merge_branch", done, repo_state)

rebase_branch(s, done, repo_state) ==
    merge_or_rebase(s, "rebase_branch", done, repo_state)

\* Option<CommitId>: branches.get(selection).map(|b| b.top_commit)
get_selected(s) ==
    IF s.selection < Len(s.branches)
    THEN [some |-> TRUE, val |-> s.branches[s.selection + 1].name]
    ELSE [some |-> FALSE, val |-> <<>>]

inspect_head_of_branch(s) ==
    LET sel == get_selected(s)
    IN  IF sel.some
        THEN push(hide(s), [kind |-> "InspectCommit", target |-> sel.val])
        ELSE s

compare_commits(s) ==
    LET sel == get_selected(s)
        s1 == hide(s)
    IN  IF sel.some
        THEN push(s1, [kind |-> "CompareCommits", target |-> sel.val])
        ELSE s1

rename_branch(s) ==
    IF s.selection >= Len(s.branches)
    THEN panic(s, "rename_branch: branches[selection]")
    ELSE push(s, [kind |-> "RenameBranch",
                  target |-> s.branches[s.selection + 1].name])

delete_branch(s) ==
    IF s.selection >= Len(s.branches)
    THEN panic(s, "delete_branch: branches[selection]")
    ELSE push(s, [kind |-> IF s.local THEN "DeleteLocalBranch"
                           ELSE "DeleteRemoteBranch",
                  target |-> s.branches[s.selection + 1].name])

\* done: the checkout succeeds; got: what the refresh after a remote
\* checkout fetches
switch_to_selected_branch(s, done, got) ==
    IF ~valid_selection(s) THEN [s EXCEPT !.err = TRUE]
    ELSE IF s.selection >= Len(s.branches_filtered)
    THEN panic(s, "switch_to_selected_branch: branches_filtered[selection]")
    ELSE LET index == s.branches_filtered[s.selection + 1][1]
         IN  IF index >= Len(s.branches)
             THEN panic(s, "switch_to_selected_branch: branches[index]")
             ELSE IF s.local
             THEN LET s1 == call(s, [fn |-> "checkout_branch",
                                     arg |-> s.branches[index + 1].name])
                  IN  IF ~done THEN [s1 EXCEPT !.err = TRUE]
                      ELSE push(hide(s1),
                                [kind |-> "Update", target |-> <<>>])
             ELSE LET s1 == call(s, [fn |-> "checkout_remote_branch",
                                     arg |-> s.branches[index + 1].name])
                  IN  IF ~done THEN [s1 EXCEPT !.err = TRUE]
                      ELSE LET s2 == update_branches(
                                        [s1 EXCEPT !.local = TRUE], got, got)
                           IN  IF s2.err THEN s2
                               ELSE push(s2, [kind |-> "Update",
                                              target |-> <<>>])

\* VerticalScroll::update(selection, len, height) -> top: 0 when everything
\* fits; otherwise the smallest move that brings the selection to the
\* nearest edge of the viewport, clamped to [0, max(0, len - height)]
scroll_update(top, sel, len, height) ==
    LET moved == IF len <= height THEN 0
                 ELSE IF sel < top THEN sel
                 ELSE IF sel >= top + height THEN sel - height + 1
                 ELSE top
    IN  Min(Max(moved, 0), Max(0, len - height))

\* the source indices get_text maps to branches: the rows of the filtered
\* view from scroll top on, at most `height` of them
to_display(s, height) ==
    SubSeq(s.branches_filtered, s.scroll_top + 1,
           Min(Len(s.branches_filtered), s.scroll_top + height))

\* get_text changes no field; it panics on branches[a.0] out of range, and
\* on `selection - top` below zero in a build with overflow checks (without
\* them the difference wraps and no row is drawn selected)
get_text(s, height, overflow_checks) ==
    LET rows == to_display(s, height)
    IN  IF \E k \in DOMAIN rows : rows[k][1] >= Len(s.branches)
        THEN panic(s, "get_text: branches[source_index]")
        ELSE IF rows # <<>> /\ s.selection < s.scroll_top /\ overflow_checks
        THEN panic(s, "get_text: selection - scroll_top")
        ELSE s

draw_list(s, height, overflow_checks) ==
    LET s1 == [s EXCEPT !.current_height = height,
                        !.scroll_top = scroll_update(s.scroll_top,
                                          s.selection,
                                          Len(s.branches_filtered), height)]
    IN  get_text(s1, height, overflow_checks)

draw(s, height, overflow_checks) ==
    IF s.visible THEN draw_list(s, height, overflow_checks) ELSE s

\* ------------------------------------------------------------------------
\* TextInputComponent (fuzzy_find_input), embedded and single-line: it is
\* visible exactly while the list is, consumes character, backspace and
\* cursor keys, and leaves every other event to the caller
\* ------------------------------------------------------------------------
InputCursorKeys == {"home", "end", "move_right"}

insert_char(s, c) == [s EXCEPT !.text = Append(@, c)]

backspace(s) ==
    [s EXCEPT !.text = IF @ = <<>> THEN @ ELSE SubSeq(@, 1, Len(@) - 1)]

text_input_event(s, ev) ==
    IF ev.key = "char"
    THEN [consumed |-> TRUE, s |-> insert_char(s, ev.char)]
    ELSE IF ev.key = "backspace"
    THEN [consumed |-> TRUE, s |-> backspace(s)]
    ELSE [consumed |-> ev.key \in InputCursorKeys, s |-> s]

\* ------------------------------------------------------------------------
\* event(): ev = [key, char] names the binding the key matches ("char" and
\* "backspace" for text keys, "other" for anything else); inp holds what the
\* backend answers: done (checkout, merge, rebase succeed), got
\* (get_branches_info), repo_state
\* ------------------------------------------------------------------------
Key(k) == [key |-> k, char |-> ""]
Char(c) == [key |-> "char", char |-> c]

\* `key && !selection_is_cur_branch() && valid_selection()`, then the
\* handler; the guard itself can panic
guarded(s, then) ==
    IF selection_is_cur_branch_panics(s)
    THEN panic(s, "selection_is_cur_branch: branches_filtered[selection]")
    ELSE IF ~selection_is_cur_branch(s) /\ valid_selection(s) THEN then
    ELSE s

\* the else-if chain over the key bindings; a binding whose guard fails
\* falls through to the end of the chain
key_chain(s, ev, inp) ==
    LET k == ev.key
    IN  CASE k = "exit_popup" -> returns(hide(s), "Consumed")
          [] k = "move_down" -> returns(move_selection(s, "Up"), "Consumed")
          [] k = "move_up" -> returns(move_selection(s, "Down"), "Consumed")
          [] k = "page_down" ->
                returns(move_selection(s, "PageDown"), "Consumed")
          [] k = "page_up" ->
                returns(move_selection(s, "PageUp"), "Consumed")
          [] k = "home" -> returns(move_selection(s, "Home"), "Consumed")
          [] k = "end" -> returns(move_selection(s, "End"), "Consumed")
          [] k = "tab_toggle" ->
                LET s1 == check_remotes([s EXCEPT !.local = ~s.local],
                                        inp.got)
                IN  returns(update_branches(s1, inp.got, inp.got),
                            "Consumed")
          [] k = "enter" ->
                returns(try_or_popup(
                            switch_to_selected_branch(s, inp.done, inp.got),
                            "switch branch error:"),
                        "Consumed")
          [] k = "create_branch" /\ s.local ->
                returns(push(s, [kind |-> "CreateBranch", target |-> <<>>]),
                        "Consumed")
          [] k = "rename_branch" /\ valid_selection(s) ->
                returns(rename_branch(s), "Consumed")
          [] k = "delete_branch" ->
                returns(guarded(s, delete_branch(s)), "Consumed")
          [] k = "merge_branch" ->
                returns(guarded(s, try_or_popup(
                                      merge_branch(s, inp.done,
                                                   inp.repo_state),
                                      "merge branch error:")),
                        "Consumed")
          [] k = "rebase_branch" ->
                returns(guarded(s, try_or_popup(
                                      rebase_branch(s, inp.done,
                                                    inp.repo_state),
                                      "rebase error:")),
                        "Consumed")
          [] k = "move_right" /\ valid_selection(s) ->
                returns(inspect_head_of_branch(s), "Consumed")
          [] k = "compare_commits" /\ valid_selection(s) ->
                returns(compare_commits(s), "Consumed")
          [] k = "pull" /\ ~s.local /\ s.has_remotes ->
                returns(push(s, [kind |-> "FetchRemotes", target |-> <<>>]),
                        "Consumed")
          [] k = "cmd_bar_toggle" -> returns(s, "NotConsumed")
          [] k = "fuzzy_find" ->
                returns([s EXCEPT !.fuzzy_find = ~s.fuzzy_find], "Consumed")
          [] OTHER -> returns(s, "Consumed")

\* event as it would be without the exit_popup case of Filtering mode: the
\* exit key reaches the key chain from either mode
event_without_filtering_exit(s, ev, inp) ==
    IF ~s.visible THEN returns(s, "NotConsumed")
    ELSE IF s.fuzzy_find
    THEN IF ev.key = "popup_up"
         THEN returns(move_selection(s, "Down"), "Consumed")
         ELSE IF ev.key = "popup_down"
         THEN returns(move_selection(s, "Up"), "Consumed")
         ELSE LET t == text_input_event(s, ev)
              IN  IF t.consumed
                  THEN returns(update_filter(t.s), "Consumed")
                  ELSE key_chain(s, ev, inp)
    ELSE key_chain(s, ev, inp)

event(s, ev, inp) ==
    IF ~s.visible THEN returns(s, "NotConsumed")
    ELSE IF s.fuzzy_find
    THEN IF ev.key = "exit_popup"
         THEN returns([s EXCEPT !.fuzzy_find = FALSE], "Consumed")
         ELSE IF ev.key = "popup_up"
         THEN returns(move_selection(s, "Down"), "Consumed")
         ELSE IF ev.key = "popup_down"
         THEN returns(move_selection(s, "Up"), "Consumed")
         ELSE LET t == text_input_event(s, ev)
              IN  IF t.consumed
                  THEN returns(update_filter(t.s), "Consumed")
                  ELSE key_chain(s, ev, inp)
    ELSE key_chain(s, ev, inp)

update_git(s, ev, got) ==
    IF s.visible /\ ev = "Push" THEN update_branches(s, got, got)
    ELSE [s EXCEPT !.err = FALSE]

\* ------------------------------------------------------------------------
\* The state machine: one action per handler and per group of keys
\* ------------------------------------------------------------------------
Init ==
    /\ branches = <<>>
    /\ branches_filtered = <<>>
    /\ local = TRUE
    /\ has_remotes = FALSE
    /\ visible = FALSE
    /\ fuzzy_find = FALSE
    /\ text = <<>>
    /\ selection = 0
    /\ scroll_top = 0
    /\ current_height = 0
    /\ panicked = "none"

\* the handler ends in s; a panic ends the process, whose fields are gone
Done(s) ==
    /\ panicked' = s.panic
    /\ IF s.panic # "none"
       THEN /\ branches' = <<>>
            /\ branches_filtered' = <<>>
            /\ local' = TRUE
            /\ has_remotes' = FALSE
            /\ visible' = FALSE
            /\ fuzzy_find' = FALSE
            /\ text' = <<>>
            /\ selection' = 0
            /\ scroll_top' = 0
            /\ current_height' = 0
       ELSE /\ branches' = s.branches
            /\ branches_filtered' = s.branches_filtered
            /\ local' = s.local
            /\ has_remotes' = s.has_remotes
            /\ visible' = s.visible
            /\ fuzzy_find' = s.fuzzy_find
            /\ text' = s.text
            /\ selection' = s.selection
            /\ scroll_top' = s.scroll_top
            /\ current_height' = s.current_height

Running == panicked = "none"

\* backend answers for a handler that asks the backend nothing
NoInput == [done |-> TRUE, got |-> FetchErr, repo_state |-> "Clean"]

\* every answer the backend can give to checkout/merge/rebase, to
\* repo_state and to a fetch of the partition local_
Inputs(local_) ==
    [done : BOOLEAN, got : FetchOutcomes(local_), repo_state : RepoStates]

Open ==
    /\ Running
    /\ \E got \in FetchOutcomes(local) : Done(open(Self, got, got))

Hide ==
    /\ Running
    /\ Done(hide(Self))

UpdateBranches ==
    /\ Running
    /\ \E got \in (IF visible THEN FetchOutcomes(local) ELSE {FetchErr}) :
          Done(update_branches(Self, got, got))

UpdateGit ==
    /\ Running
    /\ \E ev \in Notifications :
          \E got \in (IF visible /\ ev = "Push" THEN FetchOutcomes(local)
                      ELSE {FetchErr}) :
             Done(update_git(Self, ev, got))

Draw ==
    /\ Running
    /\ \E height \in 0..MaxHeight, overflow_checks \in BOOLEAN :
          Done(draw(Self, height, overflow_checks))

\* any event while the list is hidden
EventHidden ==
    /\ Running
    /\ ~visible
    /\ Done(event(Self, Key("other"), NoInput))

\* exit_popup: leaves Filtering mode, or hides the list in Browsing mode
EventExit ==
    /\ Running
    /\ visible
    /\ Done(event(Self, Key("exit_popup"), NoInput))

MoveKeys == {"move_down", "move_up", "page_down", "page_up", "home", "end",
             "popup_up", "popup_down"}

\* cursor keys; in Filtering mode home and end go to the text input
EventMove ==
    /\ Running
    /\ visible
    /\ \E k \in MoveKeys : Done(event(Self, Key(k), NoInput))

\* a character typed in Filtering mode (in Browsing mode it is one of the
\* bindings below or bound to nothing)
EventChar ==
    /\ Running
    /\ visible /\ fuzzy_find
    /\ Len(text) < MaxQuery
    /\ \E c \in QueryChars : Done(event(Self, Char(c), NoInput))

EventBackspace ==
    /\ Running
    /\ visible /\ fuzzy_find
    /\ Done(event(Self, Key("backspace"), NoInput))

EventTabToggle ==
    /\ Running
    /\ visible
    /\ \E got \in FetchOutcomes(~local) :
          Done(event(Self, Key("tab_toggle"),
                     [NoInput EXCEPT !.got = got]))

EventEnter ==
    /\ Running
    /\ visible
    /\ \E done \in BOOLEAN :
          \E got \in (IF ~local /\ done THEN FetchOutcomes(TRUE)
                      ELSE {FetchErr}) :
             Done(event(Self, Key("enter"),
                        [NoInput EXCEPT !.done = done, !.got = got]))

\* move_right is the cursor-right key of the text input in Filtering mode
EventInspect ==
    /\ Running
    /\ visible
    /\ Done(event(Self, Key("move_right"), NoInput))

\* the bindings below are character keys: in Filtering mode the text input
\* consumes them as text (EventChar), so they reach the key chain in
\* Browsing mode only
LetterKey == visible /\ ~fuzzy_find

EventCreateBranch ==
    /\ Running
    /\ LetterKey
    /\ Done(event(Self, Key("create_branch"), NoInput))

EventRename ==
    /\ Running
    /\ LetterKey
    /\ Done(event(Self, Key("rename_branch"), NoInput))

EventDelete ==
    /\ Running
    /\ LetterKey
    /\ Done(event(Self, Key("delete_branch"), NoInput))

EventMerge ==
    /\ Running
    /\ LetterKey
    /\ \E done \in BOOLEAN, repo_state \in RepoStates :
          Done(event(Self, Key("merge_branch"),
                     [NoInput EXCEPT !.done = done,
                                     !.repo_state = repo_state]))

EventRebase ==
    /\ Running
    /\ LetterKey
    /\ \E done \in BOOLEAN, repo_state \in RepoStates :
          Done(event(Self, Key("rebase_branch"),
                     [NoInput EXCEPT !.done = done,
                                     !.repo_state = repo_state]))

EventCompare ==
    /\ Running
    /\ LetterKey
    /\ Done(event(Self, Key("compare_commits"), NoInput))

EventPull ==
    /\ Running
    /\ LetterKey
    /\ Done(event(Self, Key("pull"), NoInput))

EventCmdBar ==
    /\ Running
    /\ LetterKey
    /\ Done(event(Self, Key("cmd_bar_toggle"), NoInput))

EventFuzzyFind ==
    /\ Running
    /\ LetterKey
    /\ Done(event(Self, Key("fuzzy_find"), NoInput))

\* an event that is no key, or a key bound to nothing here
EventOther ==
    /\ Running
    /\ visible
    /\ Done(event(Self, Key("other"), NoInput))

\* every handler but draw: the fields draw writes, scroll_top and
\* current_height, stay as constructed, and no other handler reads them
\* except the page moves, which then move by 0 rows
ControlNext ==
    \/ Open
    \/ Hide
    \/ UpdateBranches
    \/ UpdateGit
    \/ EventHidden
    \/ EventExit
    \/ EventMove
    \/ EventChar
    \/ EventBackspace
    \/ EventTabToggle
    \/ EventEnter
    \/ EventInspect
    \/ EventCreateBranch
    \/ EventRename
    \/ EventDelete
    \/ EventMerge
    \/ EventRebase
    \/ EventCompare
    \/ EventPull
    \/ EventCmdBar
    \/ EventFuzzyFind
    \/ EventOther

Next ==
    \/ ControlNext
    \/ Draw

\* the component with all its handlers
Spec == Init /\ [][Next]_vars

\* the component between two draws
ControlSpec == Init /\ [][ControlNext]_vars

TypeOK ==
    /\ visible \in BOOLEAN /\ local \in BOOLEAN /\ fuzzy_find \in BOOLEAN
    /\ has_remotes \in BOOLEAN
    /\ selection \in 0..U16Max
    /\ Len(text) <= MaxQuery

\* ------------------------------------------------------------------------
\* Vocabulary of the properties
\* ------------------------------------------------------------------------
\* the identity view over a branch list: (i, no offsets) for every index i
IdentityView(bs) == [i \in 1..Len(bs) |-> <<i - 1, <<>> >>]

\* q occurs in name as an ordered, not necessarily contiguous, subsequence
\* under the matcher's comparison of characters
Matches(name, q) ==
    \E pos \in [1..Len(q) -> 1..Len(name)] :
        /\ \A k \in 1..Len(q) :
              char_equal(name[pos[k]], q[k], case_sensitive(q))
        /\ \A k \in 1..(Len(q) - 1) : pos[k] < pos[k + 1]

\* the cursor points at a row of the view and the row at a branch
CursorOnRow(s) ==
    /\ s.selection < Len(s.branches_filtered)
    /\ s.branches_filtered[s.selection + 1][1] < Len(s.branches)

\* the branch backing the filtered row at the cursor
SelectedBranch(s) ==
    s.branches[s.branches_filtered[s.selection + 1][1] + 1]

\* the keys whose handler acts on the selected branch
ActionKeys == {"enter", "rename_branch", "delete_branch", "merge_branch",
               "rebase_branch", "move_right", "compare_commits"}

\* the action keys event() dispatches as actions in state s: all of them in
\* Browsing mode; in Filtering mode only enter, the others are text-input
\* keys there
Dispatched(s) == IF s.fuzzy_find THEN {"enter"} ELSE ActionKeys

\* the backend answers the handler of key k can meet in state s
InputsFor(s, k) ==
    CASE k = "enter" ->
            { [NoInput EXCEPT !.done = d, !.got = g] :
                d \in BOOLEAN,
                g \in (IF s.local THEN {FetchErr} ELSE FetchOutcomes(TRUE)) }
      [] k \in {"merge_branch", "rebase_branch"} ->
            { [NoInput EXCEPT !.done = d, !.repo_state = r] :
                d \in BOOLEAN, r \in RepoStates }
      [] k = "tab_toggle" ->
            { [NoInput EXCEPT !.got = g] : g \in FetchOutcomes(~s.local) }
      [] OTHER -> {NoInput}

BranchCalls == {"checkout_branch", "checkout_remote_branch",
                "merge_branch", "rebase_branch"}

BranchRequests == {"RenameBranch", "DeleteLocalBranch",
                   "DeleteRemoteBranch", "InspectCommit", "CompareCommits"}

\* the branches a finished handler acted on: the arguments of its backend
\* actions and the targets of the requests it pushed
Targets(r) ==
    { r.calls[i].arg : i \in { j \in DOMAIN r.calls :
                                  r.calls[j].fn \in BranchCalls } }
    \cup
    { r.pushed[i].target : i \in { j \in DOMAIN r.pushed :
                                      r.pushed[j].kind \in BranchRequests } }

\* the fields the error-handling contract speaks of
Controller(s) ==
    << s.visible, s.local, s.fuzzy_find, s.text, s.branches,
       s.branches_filtered, s.selection >>

\* ------------------------------------------------------------------------
\* Properties
\* ------------------------------------------------------------------------

\* C1: in every reachable state every source_index stored in
\* branches_filtered is a valid index into branches.
C1_SourceIndexValid ==
    \A i \in DOMAIN branches_filtered :
        branches_filtered[i][1] < Len(branches)

\* C2: in every reachable state the cursor is within the filtered view:
\* selection <= len - 1 when the view is non-empty, selection = 0 when it
\* is empty.
C2_CursorInRange ==
    IF branches_filtered = <<>> THEN selection = 0
    ELSE selection <= Len(branches_filtered) - 1

\* C3: whenever the cursor is on a row of the view, every action key acts
\* on the branch backing that row, branches[branches_filtered[selection].0],
\* and on no other branch.
C3_ActionsTargetSelectedRow ==
    (Running /\ visible /\ CursorOnRow(Self)) =>
        \A k \in Dispatched(Self) :
            \A inp \in InputsFor(Self, k) :
                LET r == event(Self, Key(k), inp)
                IN  r.panic = "none" =>
                        Targets(r) \subseteq {SelectedBranch(Self).name}

\* C4: a refresh that succeeds while the list is shown leaves the query
\* text unchanged and leaves branches_filtered equal to the filter of the
\* newly fetched branches by the current query, the cursor within it.
C4_RefreshReappliesFilter ==
    (Running /\ visible) =>
        \A got \in FetchOutcomes(local) :
            LET r == update_branches(Self, got, got)
            IN  Ok(r) /\ got.ok =>
                    /\ r.text = text
                    /\ r.branches_filtered
                          = update_filter(r).branches_filtered
                    /\ r.selection
                          <= saturating_sub(Len(r.branches_filtered), 1)

\* C5: when the backend fails (get_branches_info in open, partition toggle
\* or refresh; checkout, merge or rebase on an action key) the controller's
\* fields after the handler equal those before it, and the failed call is
\* made once.
C5_BackendErrorChangesNothing ==
    Running =>
        /\ LET r == open(Self, FetchErr, FetchErr)
           IN  Controller(r) = Controller(Self)
        /\ LET r == update_branches(Self, FetchErr, FetchErr)
           IN  Controller(r) = Controller(Self)
        /\ LET r == update_git(Self, "Push", FetchErr)
           IN  Controller(r) = Controller(Self)
        /\ LET r == event(Self, Key("tab_toggle"), NoInput)
           IN  Controller(r) = Controller(Self)
        /\ \A k \in {"enter", "merge_branch", "rebase_branch"} \cap
                        Dispatched(Self) :
              LET r == event(Self, Key(k), [NoInput EXCEPT !.done = FALSE])
              IN  r.panic = "none" =>
                      /\ Controller(r) = Controller(Self)
                      /\ Cardinality({ j \in DOMAIN r.calls :
                                          r.calls[j].fn \in BranchCalls })
                            <= 1

\* C6: no index the component evaluates is out of range and the
\* subtraction selection - scroll_top never goes below zero: no handler
\* panics.
C6_NoIndexOutOfRange == panicked = "none"

\* C7: with an empty filtered view, an action key that is dispatched as an
\* action changes no field of the controller, calls no backend action,
\* pushes no request that names a branch, and does not panic.
C7_EmptyViewActionsAreNoOps ==
    (Running /\ visible /\ branches_filtered = <<>>) =>
        \A k \in Dispatched(Self) :
            \A inp \in InputsFor(Self, k) :
                LET r == event(Self, Key(k), inp)
                IN  /\ r.panic = "none"
                    /\ Controller(r) = Controller(Self)
                    /\ r.calls = <<>>
                    /\ \A j \in DOMAIN r.pushed :
                          r.pushed[j].kind = "ShowErrorMsg"

\* C7 witness: the list is shown in Browsing mode over a non-empty branch
\* list of which the query retains nothing, and enter answers with the
\* error message only.
C7_Witness ==
    /\ Running /\ visible /\ ~fuzzy_find
    /\ branches # <<>> /\ branches_filtered = <<>> /\ text # <<>>
    /\ event(Self, Key("enter"), NoInput).pushed
          = << [kind |-> "ShowErrorMsg",
                target |-> <<"switch branch error:">>] >>

\* C8: for a non-empty query, update_filter retains exactly the indices of
\* the branches whose name matches the query as an ordered subsequence,
\* each index once.
C8_SubsequenceSoundness ==
    (Running /\ text # <<>>) =>
        LET f == update_filter(Self).branches_filtered
        IN  /\ { f[i][1] : i \in DOMAIN f }
                  = { i - 1 : i \in { j \in DOMAIN branches :
                                         Matches(branches[j].name, text) } }
            /\ \A i, j \in DOMAIN f : i # j => f[i][1] # f[j][1]

\* C8 witness: a query was typed that one branch matches and another does
\* not, and the view holds the filter's result.
C8_Witness ==
    /\ Running /\ visible /\ text # <<>>
    /\ \E i \in DOMAIN branches : Matches(branches[i].name, text)
    /\ \E i \in DOMAIN branches : ~Matches(branches[i].name, text)
    /\ branches_filtered = update_filter(Self).branches_filtered
    /\ Len(branches_filtered) < Len(branches)

\* the score of row i of view f over the branches and query of state s
RowScore(s, f, i) ==
    fuzzy_indices(s.branches[f[i][1] + 1].name, s.text).score

\* C9: for a non-empty query, the rows update_filter produces are ordered
\* by score, highest first, and rows of equal score are in ascending
\* source_index order.
C9_ScoreOrderStable ==
    (Running /\ text # <<>>) =>
        LET f == update_filter(Self).branches_filtered
        IN  \A i, j \in DOMAIN f :
                i < j =>
                    /\ RowScore(Self, f, i) >= RowScore(Self, f, j)
                    /\ RowScore(Self, f, i) = RowScore(Self, f, j)
                          => f[i][1] < f[j][1]

\* C9 witness: the view holds the filter's result for a typed query and
\* two of its rows have the same score.
C9_Witness ==
    /\ Running /\ visible /\ text # <<>>
    /\ C1_SourceIndexValid
    /\ branches_filtered = update_filter(Self).branches_filtered
    /\ \E i, j \in DOMAIN branches_filtered :
          /\ i < j
          /\ RowScore(Self, branches_filtered, i)
                = RowScore(Self, branches_filtered, j)

\* C10: with an empty query update_filter yields the identity mapping over
\* branches, also when the query becomes empty by deleting its last
\* character.
C10_IdentityOnEmptyQuery ==
    Running =>
        /\ text = <<>> =>
              update_filter(Self).branches_filtered = IdentityView(branches)
        /\ (visible /\ fuzzy_find /\ Len(text) <= 1) =>
              LET r == event(Self, Key("backspace"), NoInput)
              IN  /\ r.text = <<>>
                  /\ r.branches_filtered = IdentityView(branches)

\* C10 witness: after a query was typed and deleted again, the view is the
\* identity over two branches or more.
C10_Witness ==
    /\ Running /\ visible /\ fuzzy_find /\ text = <<>>
    /\ Len(branches) >= 2
    /\ branches_filtered = IdentityView(branches)

\* the events that change the query in state s: a character typed into the
\* input, or backspace over a non-empty query
QueryEdits(s) ==
    (IF Len(s.text) < MaxQuery THEN { Char(c) : c \in QueryChars } ELSE {})
    \cup (IF s.text # <<>> THEN {Key("backspace")} ELSE {})

\* C11: when a query change rebuilds the filtered view to length m and the
\* cursor was at k, the cursor afterwards is m - 1 if m < k + 1 (0 if
\* m = 0) and k otherwise.
C11_ClampOnShrink ==
    (Running /\ visible /\ fuzzy_find) =>
        \A ev \in QueryEdits(Self) :
            LET r == event(Self, ev, NoInput)
                m == Len(r.branches_filtered)
                k == selection
            IN  r.selection = IF m = 0 THEN 0
                              ELSE IF m < k + 1 THEN m - 1
                              ELSE k

\* C12: after the scroll update of a draw over a non-empty filtered view
\* and a viewport of one row or more, scroll_top <= selection
\* < scroll_top + height, and the selected row is among the rows get_text
\* renders.
C12_ScrollContainment ==
    (Running /\ visible /\ branches_filtered # <<>>) =>
        \A height \in 1..MaxHeight :
            LET r == draw(Self, height, FALSE)
            IN  r.panic = "none" =>
                    /\ r.scroll_top <= r.selection
                    /\ r.selection < r.scroll_top + height
                    /\ r.selection - r.scroll_top + 1
                          \in DOMAIN to_display(r, height)

\* C13: after open() returns Ok from any state, the list is shown, the
\* query is empty, the mode is Browsing and branches_filtered is the
\* identity over the branch list just fetched.
C13_OpenResetsSession ==
    Running =>
        \A got \in FetchOutcomes(local) :
            LET r == open(Self, got, got)
            IN  Ok(r) =>
                    /\ got.ok
                    /\ r.visible
                    /\ r.text = <<>>
                    /\ ~r.fuzzy_find
                    /\ r.branches = (IF local THEN got.val
                                     ELSE remove_head(got.val))
                    /\ r.branches_filtered = IdentityView(r.branches)

\* C13 witness: a session was left in Filtering mode with a query that
\* narrowed the view and with the cursor moved, the list is hidden, and
\* open() over two branches succeeds from there.
C13_Witness ==
    /\ Running /\ ~visible /\ fuzzy_find /\ text # <<>>
    /\ Len(branches_filtered) < Len(branches)
    /\ \E got \in FetchOutcomes(local) :
          /\ got.ok /\ Len(got.val) = 2
          /\ LET r == open(Self, got, got)
             IN  Ok(r) /\ r.branches_filtered = IdentityView(got.val)

\* the keys that are no characters: they reach event() as themselves in
\* Filtering mode too
NonCharKeys == {"exit_popup", "popup_up", "popup_down", "move_down",
                "move_up", "page_down", "page_up", "home", "end",
                "move_right", "enter", "tab_toggle", "backspace", "other"}

\* the requests a finished handler pushed for the host to act on a branch
\* or on the remotes
ActionRequests == BranchRequests \cup {"CreateBranch", "FetchRemotes"}

\* C14: in Filtering mode no key event hides the list, toggles the
\* partition or dispatches a branch action; and the toggle between
\* Browsing and Filtering leaves branches_filtered unchanged.
C14_FilteringRoutesToQuery ==
    (Running /\ visible) =>
        /\ fuzzy_find =>
              \A ev \in { Key(k) : k \in NonCharKeys } \cup QueryEdits(Self) :
                  \A inp \in InputsFor(Self, ev.key) :
                      LET r == event(Self, ev, inp)
                      IN  r.panic = "none" =>
                              /\ r.visible
                              /\ r.local = local
                              /\ \A j \in DOMAIN r.calls :
                                    r.calls[j].fn \notin BranchCalls
                              /\ \A j \in DOMAIN r.pushed :
                                    r.pushed[j].kind \notin ActionRequests
        /\ LET k == IF fuzzy_find THEN "exit_popup" ELSE "fuzzy_find"
               r == event(Self, Key(k), NoInput)
           IN  /\ r.fuzzy_find = ~fuzzy_find
               /\ r.branches_filtered = branches_filtered

\* C15: every notification that arrives through update_git while the list
\* is shown makes the controller fetch the branch list again, whatever its
\* kind: update_git does what update_branches does.
C15_AnyNotificationRefreshes ==
    (Running /\ visible) =>
        \A ev \in Notifications :
            \A got \in FetchOutcomes(local) :
                LET r == update_git(Self, ev, got)
                IN  /\ \E j \in DOMAIN r.calls :
                          r.calls[j].fn = "get_branches_info"
                    /\ r.branches = update_branches(Self, got, got).branches

\* C16: a refresh with the list L followed by a second refresh with the
\* same L, the query untouched and no event in between, leaves
\* branches_filtered and the cursor as the first refresh left them.
C16_RoundTripRefresh ==
    (Running /\ visible) =>
        \A got \in FetchOutcomes(local) :
            LET r1 == update_branches(Self, got, got)
                r2 == update_branches(r1, got, got)
            IN  Ok(r1) =>
                    /\ Ok(r2)
                    /\ r2.text = r1.text
                    /\ r2.branches_filtered = r1.branches_filtered
                    /\ r2.selection = r1.selection

\* C16 witness: the list is shown with a query, a refresh has moved the
\* branch list away from what the view was built over, and a second refresh
\* with the same list changes neither the view nor the cursor.
C16_Witness ==
    /\ Running /\ visible /\ text # <<>> /\ branches # <<>>
    /\ branches_filtered # <<>>
    /\ branches_filtered # update_filter(Self).branches_filtered
    /\ LET got == [ok |-> TRUE, val |-> branches]
           r == update_branches(Self, got, got)
       IN  /\ got \in FetchOutcomes(local)
           /\ Ok(r)
           /\ r.branches = branches
           /\ r.branches_filtered = branches_filtered
           /\ r.selection = selection

\* the keys event() hands to move_selection in state s, with the cursor
\* each asks for before saturation
CursorKeys(s) ==
    IF s.fuzzy_find THEN {"popup_down", "popup_up", "page_down", "page_up"}
    ELSE {"move_down", "move_up", "page_down", "page_up", "home", "end"}

RequestedCursor(s, k) ==
    CASE k \in {"move_down", "popup_down"} -> s.selection + 1
      [] k \in {"move_up", "popup_up"} -> s.selection - 1
      [] k = "page_down" -> s.selection + s.current_height
      [] k = "page_up" -> s.selection - s.current_height
      [] k = "home" -> 0
      [] k = "end" -> Len(s.branches_filtered) - 1

\* C17: Home sets the cursor to 0, End to len - 1, a one-row move changes
\* it by 1 and a page move by current_height toward the requested end,
\* saturating at 0 and at len - 1; over an empty view every move leaves the
\* cursor at 0. Stated for every height the last draw may have stored in
\* current_height.
C17_MoveSelection ==
    (Running /\ visible) =>
        \A height \in 0..MaxHeight :
            LET drawn == draw(Self, height, FALSE)
                last == Max(Len(branches_filtered) - 1, 0)
            IN  drawn.panic = "none" =>
                  \A k \in CursorKeys(drawn) :
                      LET r == event(drawn, Key(k), NoInput)
                      IN  /\ Ok(r) /\ r.ret = "Consumed"
                          /\ r.selection
                                = Min(Max(RequestedCursor(drawn, k), 0), last)
                          /\ branches_filtered = <<>> => r.selection = 0

\* C17 witness: the cursor is on the last of two rows or more; after a
\* draw of one row a page up moves it one row and a row down saturates.
C17_Witness ==
    /\ Running /\ visible /\ ~fuzzy_find
    /\ Len(branches_filtered) >= 2
    /\ selection = Len(branches_filtered) - 1
    /\ LET drawn == draw(Self, 1, FALSE)
       IN  /\ drawn.panic = "none" /\ drawn.current_height = 1
           /\ event(drawn, Key("page_up"), NoInput).selection = selection - 1
           /\ event(drawn, Key("move_down"), NoInput).selection = selection
           /\ event(drawn, Key("home"), NoInput).selection = 0

\* C18: a page move made while current_height is 0 leaves the cursor
\* unchanged and returns Ok.
C18_PageMoveBeforeFirstDraw ==
    (Running /\ visible /\ current_height = 0) =>
        \A k \in {"page_up", "page_down"} :
            LET r == event(Self, Key(k), NoInput)
            IN  /\ Ok(r) /\ r.ret = "Consumed"
                /\ r.selection = selection

\* the names of the branches of s that are the checked-out HEAD
HeadBranches(s) ==
    { s.branches[i].name : i \in { j \in DOMAIN s.branches :
                                      /\ s.branches[j].details = "Local"
                                      /\ s.branches[j].is_head } }

\* C19: a delete, merge or rebase issued by a key event never targets the
\* branch that is the checked-out HEAD.
C19_HeadIsNeverTargeted ==
    (Running /\ visible) =>
        \A k \in {"delete_branch", "merge_branch", "rebase_branch"}
                    \cap Dispatched(Self) :
            \A inp \in InputsFor(Self, k) :
                LET r == event(Self, Key(k), inp)
                IN  r.panic = "none" =>
                        Targets(r) \cap HeadBranches(Self) = {}

\* the keys bound to a character
LetterKeys == {"create_branch", "rename_branch", "delete_branch",
               "merge_branch", "rebase_branch", "compare_commits", "pull",
               "cmd_bar_toggle", "fuzzy_find"}

\* every field of the component
Fields(s) ==
    << s.branches, s.branches_filtered, s.local, s.has_remotes, s.visible,
       s.fuzzy_find, s.text, s.selection, s.scroll_top, s.current_height >>

\* the handler returned Ok, asked the backend nothing, pushed nothing and
\* left every field as in state s
Untouched(r, s) ==
    /\ Ok(r)
    /\ r.calls = <<>>
    /\ r.pushed = <<>>
    /\ Fields(r) = Fields(s)

\* C20: while the list is hidden, event returns NotConsumed for every
\* input, and event, update_branches and update_git fetch nothing, push
\* nothing and change no field.
C20_HiddenIsInert ==
    (Running /\ ~visible) =>
        /\ \A ev \in { Key(k) : k \in NonCharKeys \cup LetterKeys }
                        \cup { Char(c) : c \in QueryChars } :
              \A inp \in InputsFor(Self, ev.key) :
                  LET r == event(Self, ev, inp)
                  IN  r.ret = "NotConsumed" /\ Untouched(r, Self)
        /\ \A got \in FetchOutcomes(local) :
              /\ Untouched(update_branches(Self, got, got), Self)
              /\ \A n \in Notifications :
                    Untouched(update_git(Self, n, got), Self)

\* C20 witness: the list was hidden in the middle of a session (branches
\* fetched, a query typed in Filtering mode), and enter is not consumed.
C20_Witness ==
    /\ Running /\ ~visible /\ fuzzy_find
    /\ branches # <<>> /\ text # <<>> /\ branches_filtered # <<>>
    /\ event(Self, Key("enter"), NoInput).ret = "NotConsumed"

\* C21: the exit key pressed in Filtering mode switches to Browsing and
\* leaves the list shown, with the query, branches_filtered and the cursor
\* as they were; pressed in Browsing mode it hides the list: closing from
\* Filtering mode takes two presses.
C21_ExitLeavesFilteringFirst ==
    (Running /\ visible) =>
        LET r1 == event(Self, Key("exit_popup"), NoInput)
            r2 == event(r1, Key("exit_popup"), NoInput)
        IN  /\ Ok(r1) /\ r1.ret = "Consumed"
            /\ r1.calls = <<>> /\ r1.pushed = <<>>
            /\ r1.text = text
            /\ r1.branches = branches
            /\ r1.branches_filtered = branches_filtered
            /\ r1.selection = selection
            /\ r1.local = local
            /\ ~r1.fuzzy_find
            /\ IF fuzzy_find
               THEN r1.visible /\ ~r2.visible /\ r2.ret = "Consumed"
               ELSE ~r1.visible

\* C21 witness: Filtering mode over a typed query with the cursor moved
\* off the first row; one exit press leaves the list shown, the second
\* hides it.
C21_Witness ==
    /\ Running /\ visible /\ fuzzy_find
    /\ text # <<>> /\ selection > 0 /\ selection < Len(branches_filtered)
    /\ LET r1 == event(Self, Key("exit_popup"), NoInput)
       IN  /\ r1.visible /\ ~r1.fuzzy_find
           /\ ~event(r1, Key("exit_popup"), NoInput).visible

\* C22: after a successful refresh of the remote partition no entry of
\* branches has a name ending in "/HEAD", whatever list was fetched; in the
\* local partition the fetched list is stored as it is.
C22_NoRemoteHeadEntries ==
    (Running /\ visible) =>
        \A got \in FetchOutcomes(local) :
            LET r == update_branches(Self, got, got)
            IN  (Ok(r) /\ got.ok) =>
                    IF local THEN r.branches = got.val
                    ELSE \A i \in DOMAIN r.branches :
                            ~ends_with(r.branches[i].name, HeadSuffix)

====
